---- MODULE Spec2Model ----
(***************************************************************************)
(* Model of hillmaker's Scenario front-end (src/hillmaker/scenario.py):    *)
(* the pydantic validators that run when a Scenario is constructed, the    *)
(* preprocessing of stops_df into stops_preprocessed_df, and the query     *)
(* facade (compute_hills_stats, make_hills, get_plot, get_summary_df,      *)
(* get_bydatetime_df) that forwards to hillmaker.hills.                    *)
(*                                                                         *)
(* Timestamps are integers 0..MaxTime; a missing timestamp is NaT.  A      *)
(* DataFrame is a record [type, columns, rows], rows being a sequence of   *)
(* records whose fields are the columns.                                   *)
(***************************************************************************)
EXTENDS Integers, Sequences, FiniteSets, TLC

\* ------------------------------------------------------------------ bounds
MaxTime == 2
MaxRecs == 2
MaxPercentiles == 2

\* ------------------------------------------------------- values and inputs
\* Python's None for an optional str parameter (cat_field, occ_weight_field).
None == "None"

\* Python's None for an object-valued attribute (stops_preprocessed_df, hills).
NoneObj == [type |-> "NoneType"]

\* pandas' missing timestamp; every ordering comparison with it is False.
NaT == -1

MinutesPerDay == 1440

Times == 0 .. MaxTime
TimesOrNaT == Times \cup {NaT}

\* The columns of the caller's stops_df.
StopsColumns == {"in_ts", "out_ts", "cat", "w"}
InField == "in_ts"
OutField == "out_ts"

\* One visit: its entry and exit timestamps, either of which may be missing.
Visits == [in_ts : TimesOrNaT, out_ts : TimesOrNaT]

RECURSIVE SeqsUpTo(_, _)
SeqsUpTo(S, n) ==
    IF n = 0 THEN {<< >>}
    ELSE LET shorter == SeqsUpTo(S, n - 1)
         IN  shorter \cup {Append(s, x) : s \in {t \in shorter : Len(t) = n - 1}, x \in S}

DataFrame(cols, rows) == [type |-> "DataFrame", columns |-> cols, rows |-> rows]

\* One row per visit.  Every row carries category "A"; the weight of row i is
\* i, so that the weights of a frame are positive and pairwise distinct.
StopRows(visits) ==
    [i \in 1 .. Len(visits) |->
        [in_ts |-> visits[i].in_ts, out_ts |-> visits[i].out_ts, cat |-> "A", w |-> i]]

StopsDfsUpTo(n) == {DataFrame(StopsColumns, StopRows(v)) : v \in SeqsUpTo(Visits, n)}
StopsDfs == StopsDfsUpTo(MaxRecs)

\* Values a caller may give for bin_size_minutes (an int).
BinSizes == {-60, -7, 0, 7, 60}

\* Percentiles in hundredths: confloat(ge=0.0, le=1.0) is PctGe .. PctLe.
PctGe == 0
PctLe == 100
PctValues == {-50, 0, 50, 100, 150}

\* The field's default, which pydantic does not validate.
DefaultPercentiles == [kind |-> "tuple", vals |-> <<25, 50, 75, 95, 99>>]

\* What a caller may give for percentiles: a list or a tuple of floats.
PercentileInputs ==
    {[kind |-> k, vals |-> v] : k \in {"list", "tuple"},
                                v \in SeqsUpTo(PctValues, MaxPercentiles)}

\* The keyword arguments of Scenario(...) other than stops_df.
Params ==
    [in_field : {InField}, out_field : {OutField},
     start_analysis_dt : Times, end_analysis_dt : Times,
     cat_field : {None, "cat"},
     bin_size_minutes : BinSizes,
     occ_weight_field : {None, "w", "wt"},
     percentiles : PercentileInputs \cup {DefaultPercentiles}]

EmptyDf == DataFrame(StopsColumns, << >>)

\* The frames a call is made with.  Each field is validated on its own, so
\* the frame varies with the default percentiles and the percentiles vary
\* with the empty frame.
FramesFor(p) == IF p.percentiles = DefaultPercentiles THEN StopsDfs ELSE {EmptyDf}

VARIABLES
    status,                 \* "new", "constructed", "ValidationError", "ZeroDivisionError"
    errors,                 \* the locations named by the validation error
    args,                   \* the keyword arguments the constructor was called with
    stops_df,               \* Scenario.stops_df
    stops_preprocessed_df,  \* Scenario.stops_preprocessed_df
    percentiles,            \* Scenario.percentiles
    hills,                  \* Scenario.hills
    last,                   \* the last facade call: caller's args, args passed on, result
    caller                  \* create_scenario's caller: its three sources, before and after

vars == <<status, errors, args, stops_df, stops_preprocessed_df, percentiles, hills, last, caller>>

NoCall == [op |-> "none"]

\* ------------------------------------------------------------- validators
\* Python's a % b for b # 0: the result has the sign of the divisor.
PyMod(a, b) ==
    IF b > 0 THEN a % b ELSE -((-a) % (-b))

\* field_exists: v is not None and v not in stops_df.columns -> ValueError.
FieldExistsRaises(v, columns) == v # None /\ v \notin columns

\* bin_size_minutes_divides: ZeroDivisionError for v = 0, else ValueError
\* when 1440 % v > 0.
BinSizeZeroDivision(v) == v = 0
BinSizeRaises(v) == v # 0 /\ PyMod(MinutesPerDay, v) > 0

\* confloat(ge=0.0, le=1.0)
\* Variant: the upper bound taken as exclusive (lt instead of le).
PctInRangeMut(v) == v >= PctGe /\ v < PctLe
PctInRange(v) == v >= PctGe /\ v <= PctLe

AllInRange(vals) == \A i \in 1 .. Len(vals) : PctInRange(vals[i])

\* The two members of the union, in strict and in lax mode.  Tuple[X] is a
\* tuple of exactly one X; List[X] is a list of any length.  Strict mode
\* takes only the member's own type, lax mode takes a list for a tuple and
\* a tuple for a list.
TupleOfOne(x, strict) ==
    /\ strict => x.kind = "tuple"
    /\ Len(x.vals) = 1
    /\ AllInRange(x.vals)

ListOf(x, strict) ==
    /\ strict => x.kind = "list"
    /\ AllInRange(x.vals)

\* Tuple[confloat(...)] | List[confloat(...)]: a given value is tried against
\* each member in strict mode, then in lax mode; the default is taken as is.
PercentilesRaises(x) ==
    /\ x # DefaultPercentiles
    /\ ~(TupleOfOne(x, TRUE) \/ ListOf(x, TRUE) \/ TupleOfOne(x, FALSE) \/ ListOf(x, FALSE))

\* The value the field holds after validation: that of the first member to
\* take it.
PercentilesValue(x) ==
    IF x = DefaultPercentiles THEN x
    ELSE IF TupleOfOne(x, TRUE) \/ ListOf(x, TRUE) THEN x
    ELSE IF TupleOfOne(x, FALSE) THEN [kind |-> "tuple", vals |-> x.vals]
    ELSE [kind |-> "list", vals |-> x.vals]

\* The fields whose field validator raises ValueError, collected by pydantic
\* into one ValidationError.
FieldErrors(p, columns) ==
    {f \in {"in_field", "out_field", "cat_field", "occ_weight_field"} :
        FieldExistsRaises(p[f], columns)}
    \cup (IF BinSizeRaises(p.bin_size_minutes) THEN {"bin_size_minutes"} ELSE {})
    \cup (IF PercentilesRaises(p.percentiles) THEN {"percentiles"} ELSE {})

\* date_relationship: end <= start -> ValueError.
\* Variant: end == start let through (< instead of <=).
DateRelationshipRaisesMut(p) == p.end_analysis_dt < p.start_analysis_dt
DateRelationshipRaises(p) == p.end_analysis_dt <= p.start_analysis_dt

\* ------------------------------------------------------------ preprocess
PdLt(a, b) == a # NaT /\ b # NaT /\ a < b
PdGe(a, b) == a # NaT /\ b # NaT /\ a >= b
IsNa(a) == a = NaT

\* The columns copied into the mutable copy: in_field, out_field and, when
\* given, cat_field.
PreprocessedColumns(p) ==
    {p.in_field, p.out_field} \cup (IF p.cat_field # None THEN {p.cat_field} ELSE {})

Project(row, cols) == [c \in cols |-> row[c]]

\* The boolean mask of the .loc filter.
\* Variant: exit == start dropped (> instead of >=).
KeepRowMut(row, p) ==
    /\ PdLt(row[p.in_field], p.end_analysis_dt)
    /\ ~IsNa(row[p.in_field])
    /\ ~IsNa(row[p.out_field])
    /\ PdGe(row[p.out_field], p.start_analysis_dt + 1)
KeepRow(row, p) ==
    /\ PdLt(row[p.in_field], p.end_analysis_dt)
    /\ ~IsNa(row[p.in_field])
    /\ ~IsNa(row[p.out_field])
    /\ PdGe(row[p.out_field], p.start_analysis_dt)

RECURSIVE FilterRows(_, _)
FilterRows(rows, p) ==
    IF rows = << >> THEN << >>
    ELSE LET rest == FilterRows(Tail(rows), p)
         IN  IF KeepRow(Head(rows), p) THEN << Head(rows) >> \o rest ELSE rest

RECURSIVE ProjectRows(_, _)
ProjectRows(rows, cols) ==
    IF rows = << >> THEN << >>
    ELSE << Project(Head(rows), cols) >> \o ProjectRows(Tail(rows), cols)

\* preprocess_stops_df: project, filter, reset_index(drop=True).
PreprocessStopsDf(df, p) ==
    DataFrame(PreprocessedColumns(p),
              FilterRows(ProjectRows(df.rows, PreprocessedColumns(p)), p))

\* ------------------------------------------------------- hillmaker.hills
\* The names a flow metric may be given by: 'a', 'd' and 'o' are sufficient.
FlowMetrics == {"arrivals", "departures", "occupancy", "a", "d", "o"}

MetricName(m) ==
    CASE m \in {"arrivals", "a"} -> "arrivals"
      [] m \in {"departures", "d"} -> "departures"
      [] m \in {"occupancy", "o"} -> "occupancy"

DaysOfWeek == {"week", "Mon"}

\* The result of a query made before any computation has run.
Empty == [type |-> "empty"]

Raised(exc) == [type |-> "exception", exc |-> exc]

\* hm.hills.compute_hills_stats: the by-datetime table and the summaries.
HillsComputeHillsStats(df) ==
    [type |-> "dict", keys |-> {"bydatetime", "summaries"}, n_stops |-> Len(df.rows)]

\* hm.make_hills: the same tables, and the plots.
HillsMakeHills(df) ==
    [type |-> "dict", keys |-> {"bydatetime", "summaries", "plots"}, n_stops |-> Len(df.rows)]

\* hm.hills.get_summary_df(hills, flow_metric, by_category, stationary)
HillsGetSummaryDf(h, m, b, s) ==
    IF h.type = "NoneType" THEN Empty
    ELSE [type |-> "DataFrame", table |-> "summary", flow_metric |-> MetricName(m),
          by_category |-> b, stationary |-> s]

\* hm.hills.get_bydatetime_df(hills, by_category)
HillsGetBydatetimeDf(h, b) ==
    IF h.type = "NoneType" THEN Empty
    ELSE [type |-> "DataFrame", table |-> "bydatetime", by_category |-> b]

\* hm.hills.get_plot(hills, flow_metric, day_of_week)
HillsGetPlot(h, m, d) ==
    IF h.type = "NoneType" THEN Empty
    ELSE IF "plots" \notin h.keys THEN Empty
    ELSE [type |-> "plot", flow_metric |-> MetricName(m), day_of_week |-> d]

\* ------------------------------------------------------------ construction
Init ==
    /\ status = "new"
    /\ errors = {}
    /\ args = NoneObj
    /\ stops_df = NoneObj
    /\ stops_preprocessed_df = NoneObj
    /\ percentiles = NoneObj
    /\ hills = NoneObj
    /\ last = NoCall
    /\ caller = NoneObj

Fails(p, kind, locs) ==
    /\ status' = kind
    /\ errors' = locs
    /\ args' = p
    /\ UNCHANGED <<stops_df, stops_preprocessed_df, percentiles, hills, last>>

Succeeds(p, df) ==
    /\ status' = "constructed"
    /\ errors' = {}
    /\ args' = p
    /\ stops_df' = df
    /\ stops_preprocessed_df' = PreprocessStopsDf(df, p)
    /\ percentiles' = PercentilesValue(p.percentiles)
    /\ hills' = NoneObj
    /\ last' = NoCall

\* What the validators make of the arguments: the exception raised, or "ok".
\* Field validators run in field order and their ValueErrors are collected;
\* any other exception leaves the constructor at once.  The mode='after'
\* model validators run only when no field failed.
Validate(p, columns) ==
    IF BinSizeZeroDivision(p.bin_size_minutes)
    THEN [kind |-> "ZeroDivisionError", locs |-> {}]
    ELSE IF FieldErrors(p, columns) # {}
    THEN [kind |-> "ValidationError", locs |-> FieldErrors(p, columns)]
    ELSE IF DateRelationshipRaises(p)
    THEN [kind |-> "ValidationError", locs |-> {"__root__"}]
    ELSE [kind |-> "ok", locs |-> {}]

\* Scenario(**params)
Construct ==
    /\ status = "new"
    /\ \E p \in Params :
        LET v == Validate(p, StopsColumns)
        IN  IF v.kind # "ok"
            THEN Fails(p, v.kind, v.locs)
            ELSE \E df \in FramesFor(p) : Succeeds(p, df)
    /\ UNCHANGED caller

Next == Construct

Spec == Init /\ [][Next]_vars

\* ------------------------------------------------------------------ facade
\* A Scenario as left by a successful construction, from the window
\* [0, MaxTime) and the default bin size and percentiles.
FacadeParams ==
    {p \in [in_field : {InField}, out_field : {OutField},
            start_analysis_dt : {0}, end_analysis_dt : {MaxTime},
            cat_field : {"cat"}, bin_size_minutes : {60},
            occ_weight_field : {None}, percentiles : {DefaultPercentiles}] :
        Validate(p, StopsColumns).kind = "ok"}

InitFacade ==
    \E p \in FacadeParams, df \in StopsDfsUpTo(1) :
        /\ status = "constructed"
        /\ errors = {}
        /\ args = p
        /\ stops_df = df
        /\ stops_preprocessed_df = PreprocessStopsDf(df, p)
        /\ percentiles = PercentilesValue(p.percentiles)
        /\ hills = NoneObj
        /\ last = NoCall
        /\ caller = NoneObj

\* The value compute_hills_stats assigns to self.hills.
\* Variant: the new result merged into the previous dict.
ScenarioComputeHillsStatsMut(old, df) ==
    IF old.type = "NoneType" THEN HillsComputeHillsStats(df)
    ELSE [HillsComputeHillsStats(df) EXCEPT !.keys = @ \cup old.keys]
ScenarioComputeHillsStats(old, df) == HillsComputeHillsStats(df)

\* The value make_hills assigns to self.hills.
ScenarioMakeHills(old, df) == HillsMakeHills(df)

\* Scenario.compute_hills_stats
ComputeHillsStats ==
    /\ status = "constructed"
    /\ hills' = ScenarioComputeHillsStats(hills, stops_preprocessed_df)
    /\ last' = [op |-> "compute_hills_stats"]
    /\ UNCHANGED <<status, errors, args, stops_df, stops_preprocessed_df, percentiles, caller>>

\* Scenario.make_hills
MakeHills ==
    /\ status = "constructed"
    /\ hills' = ScenarioMakeHills(hills, stops_preprocessed_df)
    /\ last' = [op |-> "make_hills"]
    /\ UNCHANGED <<status, errors, args, stops_df, stops_preprocessed_df, percentiles, caller>>

\* The arguments Scenario.get_summary_df hands to hm.hills.get_summary_df.
SummaryArgs(h, m, b, s) ==
    [hills |-> h, flow_metric |-> "o", by_category |-> b, stationary |-> s]

ScenarioGetSummaryDf(h, m, b, s) ==
    LET a == SummaryArgs(h, m, b, s)
    IN  HillsGetSummaryDf(a.hills, a.flow_metric, a.by_category, a.stationary)

\* Variant: self.hills subscripted before the lookup, which None does not allow.
ScenarioGetBydatetimeDfMut(h, b) ==
    IF h.type = "NoneType" THEN Raised("TypeError") ELSE HillsGetBydatetimeDf(h, b)
ScenarioGetBydatetimeDf(h, b) == HillsGetBydatetimeDf(h, b)

ScenarioGetPlot(h, m, d) == HillsGetPlot(h, m, d)

\* Scenario.get_summary_df
GetSummaryDf ==
    /\ status = "constructed"
    /\ \E m \in FlowMetrics, b \in BOOLEAN, s \in BOOLEAN :
        last' = [op |-> "get_summary_df",
                 call |-> [flow_metric |-> m, by_category |-> b, stationary |-> s],
                 passed |-> SummaryArgs(hills, m, b, s),
                 ret |-> ScenarioGetSummaryDf(hills, m, b, s)]
    /\ UNCHANGED <<status, errors, args, stops_df, stops_preprocessed_df, percentiles, hills, caller>>

\* Scenario.get_bydatetime_df
GetBydatetimeDf ==
    /\ status = "constructed"
    /\ \E b \in BOOLEAN :
        last' = [op |-> "get_bydatetime_df",
                 call |-> [by_category |-> b],
                 ret |-> ScenarioGetBydatetimeDf(hills, b)]
    /\ UNCHANGED <<status, errors, args, stops_df, stops_preprocessed_df, percentiles, hills, caller>>

\* Scenario.get_plot
GetPlot ==
    /\ status = "constructed"
    /\ \E m \in FlowMetrics, d \in DaysOfWeek :
        last' = [op |-> "get_plot",
                 call |-> [flow_metric |-> m, day_of_week |-> d],
                 ret |-> ScenarioGetPlot(hills, m, d)]
    /\ UNCHANGED <<status, errors, args, stops_df, stops_preprocessed_df, percentiles, hills, caller>>

NextFacade ==
    \/ ComputeHillsStats
    \/ MakeHills
    \/ GetSummaryDf
    \/ GetBydatetimeDf
    \/ GetPlot

SpecFacade == InitFacade /\ [][NextFacade]_vars

\* --------------------------------------------------------- create_scenario
EmptyDict == [k \in {} |-> 0]

\* dict.update
DictUpdate(d, e) ==
    [k \in DOMAIN d \cup DOMAIN e |-> IF k \in DOMAIN e THEN e[k] ELSE d[k]]

Restrict(d, keys) == [k \in DOMAIN d \cap keys |-> d[k]]

RequiredKeys == {"stops_df", "in_field", "out_field", "start_analysis_dt", "end_analysis_dt"}

\* The defaults of the optional fields.
Defaults ==
    [cat_field |-> None, bin_size_minutes |-> 60, occ_weight_field |-> None,
     percentiles |-> DefaultPercentiles]

\* The frame the caller of create_scenario passes: one visit over the window.
CreateDf == DataFrame(StopsColumns, StopRows(<< [in_ts |-> 0, out_ts |-> MaxTime] >>))

\* The required arguments, as one source gives them together.
RequiredArgs(start) ==
    [stops_df |-> CreateDf, in_field |-> InField, out_field |-> OutField,
     start_analysis_dt |-> start, end_analysis_dt |-> MaxTime]

RequiredParts == {EmptyDict} \cup {RequiredArgs(s) : s \in {0, MaxTime}}

OptionalParts == {EmptyDict} \cup {[bin_size_minutes |-> b] : b \in {7, 30, 60}}

\* params_dict: None or a dict.
ParamsDicts == {NoneObj} \cup {DictUpdate(r, o) : r \in RequiredParts, o \in OptionalParts}

\* The parsed content of the file at toml_path (None: no path given); a TOML
\* file holds no DataFrame.
TomlDicts ==
    {NoneObj} \cup {DictUpdate(Restrict(r, RequiredKeys \ {"stops_df"}), o) :
                        r \in RequiredParts, o \in OptionalParts}

\* **kwargs
Kwargs == {DictUpdate(r, o) : r \in RequiredParts, o \in OptionalParts}

\* params = {}, updated from params_dict, then the TOML file, then kwargs.
\* Variant: the TOML file applied after kwargs.
MergeParamsMut(params_dict, toml, kwargs) ==
    LET p0 == EmptyDict
        p1 == IF params_dict # NoneObj THEN DictUpdate(p0, params_dict) ELSE p0
        p2 == IF DOMAIN kwargs # {} THEN DictUpdate(p1, kwargs) ELSE p1
        p3 == IF toml # NoneObj THEN DictUpdate(p2, toml) ELSE p2
    IN  p3
MergeParams(params_dict, toml, kwargs) ==
    LET p0 == EmptyDict
        p1 == IF params_dict # NoneObj THEN DictUpdate(p0, params_dict) ELSE p0
        p2 == IF toml # NoneObj THEN DictUpdate(p1, toml) ELSE p1
        p3 == IF DOMAIN kwargs # {} THEN DictUpdate(p2, kwargs) ELSE p2
    IN  p3

\* Scenario(**params): a field not given takes its default.
FillDefaults(params) ==
    [k \in (DOMAIN params \cup DOMAIN Defaults) \ {"stops_df"} |->
        IF k \in DOMAIN params THEN params[k] ELSE Defaults[k]]

\* create_scenario(params_dict, toml_path, **kwargs), called with the
\* required arguments in at least one source.
CreateScenario ==
    /\ status = "new"
    /\ \E pd \in ParamsDicts, toml \in TomlDicts, kw \in Kwargs :
        LET params == MergeParams(pd, toml, kw)
        IN  /\ RequiredKeys \subseteq DOMAIN params
            /\ caller' = [params_dict |-> pd, toml |-> toml, kwargs |-> kw,
                          params |-> params, params_dict_after |-> pd]
            /\ LET p == FillDefaults(params)
                   v == Validate(p, params.stops_df.columns)
               IN  IF v.kind # "ok"
                   THEN Fails(p, v.kind, v.locs)
                   ELSE Succeeds(p, params.stops_df)

NextCreate == CreateScenario

SpecCreate == Init /\ [][NextCreate]_vars

\* ------------------------------------------------------------------ claims
Min(a, b) == IF a <= b THEN a ELSE b
Max(a, b) == IF a >= b THEN a ELSE b

Constructed == status = "constructed"
ConstructionFailed == status \in {"ValidationError", "ZeroDivisionError"}
NoScenario ==
    /\ stops_df = NoneObj
    /\ stops_preprocessed_df = NoneObj
    /\ percentiles = NoneObj
    /\ hills = NoneObj

\* A Scenario built from a bin size the documentation allows.
ConstructedValid ==
    /\ Constructed
    /\ args.bin_size_minutes > 0
    /\ MinutesPerDay % args.bin_size_minutes = 0

\* C1: whenever the constructor is called with a bin_size_minutes that is
\* zero, negative, or does not divide 1440, it fails with a validation error
\* naming bin_size_minutes and leaves no Scenario (no stops_preprocessed_df,
\* no hills).  Stated of the calls whose other arguments are all valid, so
\* that bin_size_minutes is the only thing there is to reject.
C1_OthersValid ==
    /\ args.start_analysis_dt < args.end_analysis_dt
    /\ args.cat_field \in {None} \cup StopsColumns
    /\ args.occ_weight_field \in {None} \cup StopsColumns
    /\ \A i \in 1 .. Len(args.percentiles.vals) :
            args.percentiles.vals[i] >= 0 /\ args.percentiles.vals[i] <= 100

C1_BadBinSizeRejected ==
    (/\ status # "new"
     /\ C1_OthersValid
     /\ (args.bin_size_minutes <= 0 \/ MinutesPerDay % args.bin_size_minutes # 0))
        => /\ status = "ValidationError"
           /\ "bin_size_minutes" \in errors
           /\ NoScenario

\* C2: every row kept in stops_preprocessed_df has exit >= entry after
\* clipping to the window: min(out, end) >= max(in, start).
C2_KeptRowsExitNotBeforeEntry ==
    ConstructedValid =>
        \A i \in 1 .. Len(stops_preprocessed_df.rows) :
            LET row == stops_preprocessed_df.rows[i]
            IN  Min(row[args.out_field], args.end_analysis_dt)
                    >= Max(row[args.in_field], args.start_analysis_dt)

\* C3: after construction stops_preprocessed_df holds, in their order in
\* stops_df, exactly the rows whose entry and exit timestamps are both
\* present with entry < end_analysis_dt and exit >= start_analysis_dt.
C3_Overlaps(row) ==
    /\ row[args.in_field] \in Times
    /\ row[args.out_field] \in Times
    /\ row[args.in_field] < args.end_analysis_dt
    /\ row[args.out_field] >= args.start_analysis_dt

C3_ExactlyOverlappingRows ==
    Constructed =>
        LET expected == SelectSeq(stops_df.rows, C3_Overlaps)
            got == stops_preprocessed_df.rows
        IN  /\ Len(got) = Len(expected)
            /\ \A i \in 1 .. Len(got) :
                /\ got[i][args.in_field] = expected[i][args.in_field]
                /\ got[i][args.out_field] = expected[i][args.out_field]

\* C3 witness: of two rows, the one with entry == end is dropped and the one
\* with exit == start is kept.
C3_Witness ==
    /\ Constructed
    /\ Len(stops_df.rows) = 2
    /\ stops_df.rows[1][args.in_field] = args.end_analysis_dt
    /\ stops_df.rows[1][args.out_field] = args.end_analysis_dt
    /\ stops_df.rows[2][args.in_field] = args.start_analysis_dt
    /\ stops_df.rows[2][args.out_field] = args.start_analysis_dt
    /\ Len(stops_preprocessed_df.rows) = 1
    /\ stops_preprocessed_df.rows[1][args.out_field] = args.start_analysis_dt

\* C4: get_summary_df(flow_metric=m, by_category=b, stationary=s) hands the
\* summary lookup the metric m names, and the caller's b and s.
C4_MetricPassedOn ==
    last.op = "get_summary_df" =>
        /\ MetricName(last.passed.flow_metric) = MetricName(last.call.flow_metric)
        /\ last.passed.by_category = last.call.by_category
        /\ last.passed.stationary = last.call.stationary

\* C5: when occ_weight_field is set, stops_preprocessed_df has that column
\* and every kept row has a weight some row of stops_df with the same
\* timestamps has.
C5_WeightsCarried ==
    (ConstructedValid /\ args.occ_weight_field # None) =>
        /\ args.occ_weight_field \in stops_preprocessed_df.columns
        /\ \A i \in 1 .. Len(stops_preprocessed_df.rows) :
            \E j \in 1 .. Len(stops_df.rows) :
                /\ stops_preprocessed_df.rows[i][args.in_field] = stops_df.rows[j][args.in_field]
                /\ stops_preprocessed_df.rows[i][args.out_field] = stops_df.rows[j][args.out_field]
                /\ stops_preprocessed_df.rows[i][args.occ_weight_field]
                        = stops_df.rows[j][args.occ_weight_field]

\* C6: get_summary_df, get_bydatetime_df and get_plot, called while hills is
\* still None, return an empty result and raise nothing.
Queries == {"get_summary_df", "get_bydatetime_df", "get_plot"}

C8_SomeOutside ==
    \E i \in 1 .. Len(args.percentiles.vals) :
        args.percentiles.vals[i] < 0 \/ args.percentiles.vals[i] > 100

C8_WitnessRejected ==
    /\ status = "ValidationError"
    /\ args.percentiles = [kind |-> "list", vals |-> <<50, 150>>]
    /\ errors = {"percentiles"}

\* C9: hills changes only in compute_hills_stats and make_hills, each of
\* which sets it to the new run's result alone, and get_summary_df,
\* get_bydatetime_df and get_plot leave hills, stops_df, stops_preprocessed_df
\* and the configuration parameters unchanged; before the first computation
\* hills is None.
Computations == {"compute_hills_stats", "make_hills"}

C9_HillsFrame ==
    [][/\ (hills' # hills => last'.op \in Computations)
       /\ (last'.op = "compute_hills_stats"
            => hills' = HillsComputeHillsStats(stops_preprocessed_df))
       /\ (last'.op = "make_hills"
            => hills' = HillsMakeHills(stops_preprocessed_df))
       /\ (last'.op \in Queries
            => UNCHANGED <<status, errors, args, stops_df, stops_preprocessed_df,
                           percentiles, hills, caller>>)
       /\ (last.op = "none" => hills = NoneObj)]_vars

\* C9 witness: a query answered after make_hills and then compute_hills_stats
\* ran: hills is the second run's result, without the first run's plots.
C9_Witness ==
    /\ last.op = "get_summary_df"
    /\ hills.type = "dict"
    /\ "plots" \notin hills.keys

\* C10: every key of the three sources reaches the Scenario with the value
\* of kwargs if kwargs has the key, else the TOML file's, else params_dict's;
\* no other key is passed; the caller's params_dict is as it was.
C10_Given(d, k) == d # NoneObj /\ k \in DOMAIN d

C10_Keys == RequiredKeys \cup DOMAIN Defaults

C10_MergePrecedence ==
    caller # NoneObj =>
        /\ \A k \in C10_Keys :
            LET expected ==
                    IF C10_Given(caller.kwargs, k) THEN caller.kwargs
                    ELSE IF C10_Given(caller.toml, k) THEN caller.toml
                    ELSE caller.params_dict
            IN  IF C10_Given(expected, k)
                THEN /\ k \in DOMAIN caller.params
                     /\ caller.params[k] = expected[k]
                     /\ k # "stops_df" => args[k] = expected[k]
                     /\ (k = "stops_df" /\ Constructed) => stops_df = expected[k]
                ELSE k \notin DOMAIN caller.params
        /\ DOMAIN caller.params \subseteq C10_Keys
        /\ caller.params_dict_after = caller.params_dict

\* C10 witness: bin_size_minutes is given by all three sources with three
\* values, and the Scenario is built with the keyword argument's.
C10_Witness ==
    /\ Constructed
    /\ C10_Given(caller.params_dict, "bin_size_minutes")
    /\ C10_Given(caller.toml, "bin_size_minutes")
    /\ C10_Given(caller.kwargs, "bin_size_minutes")
    /\ caller.params_dict.bin_size_minutes = 60
    /\ caller.toml.bin_size_minutes = 7
    /\ caller.kwargs.bin_size_minutes = 30
    /\ args.bin_size_minutes = 30

====
